---- MODULE Spec2Model ----
(***************************************************************************)
(* The cart aggregate of the store backend: the Cart model                 *)
(* (src/models/cart.model.js) and the cart routes (src/unnamed/part_000,   *)
(* lines 89-494).                                                          *)
(*                                                                         *)
(* Every request is one process slot.  A handler suspends only at its      *)
(* database calls (findOne, the insert of a new cart, the update a save    *)
(* sends), so each action below is one database call together with the     *)
(* synchronous code around it.                                             *)
(*                                                                         *)
(* Numbers.  The schema types quantity, price and the totals as Number, so *)
(* a quantity need not be whole.  Quantities and the two totals are kept   *)
(* in units of 1/Scale: the quantity 1 is Scale, "quantity += 1" adds      *)
(* Scale, and totalAmount is counted in 1/Scale of the currency unit.      *)
(* Prices are whole.                                                       *)
(*                                                                         *)
(* Persistence.  cart.save() on a new document inserts it; the unique      *)
(* index on userId rejects a second cart of the same user.  cart.save() on *)
(* a fetched document sends an update of the modified paths only:          *)
(*   items.push(..)         -> $push of the new line, version incremented, *)
(*                             no version condition                        *)
(*   item.quantity = ..     -> $set of items.<i>.quantity, conditioned on  *)
(*                             the fetched version, version not changed    *)
(*   this.items = [..]      -> $set of the whole array, conditioned on the *)
(*                             fetched version, version incremented        *)
(*   this.totalAmount = ..  -> $set of the scalar when its value changed   *)
(* A version condition that no longer matches fails the save.              *)
(***************************************************************************)
EXTENDS Integers, Sequences, FiniteSets, TLC

\* ---------------------------------------------------------------- bounds
\* Requests served in a run: of the concurrent specifications, and of the
\* sequential one.
MaxOps == 2
MaxSeqOps == 3

\* The denominator of the fixed-point numbers.
Scale == 2

\* JSON number fields of a request body: absent, or a number.
Undefined == [defined |-> FALSE, num |-> 0]
Num(n) == [defined |-> TRUE, num |-> n]

Procs == {"r1", "r2"}
Users == {"u1", "u2"}
Products == {"p1", "p2"}

\* The catalog snapshots a client sends with an add: name and price.
Snapshots == {[name |-> "a", price |-> Num(1)], [name |-> "b", price |-> Num(2)],
              [name |-> "a", price |-> Num(-1)], [name |-> "a", price |-> Num(0)],
              [name |-> "a", price |-> Undefined], [name |-> "", price |-> Num(1)]}

QuantityInputs == {Undefined} \cup {Num(n) : n \in {-1, 0, 1, Scale + 1}}

VARIABLES carts, req, res, budget

vars == <<carts, req, res, budget>>

\* ---------------------------------------------------------------- documents
\* The absent result of findOne.
NoCart == [id |-> 0, userId |-> "", items |-> <<>>, totalAmount |-> 0,
           totalItems |-> 0, version |-> 0]

\* new this({ userId, items: [], totalAmount: 0, totalItems: 0 })
NewCart(id, userId) == [id |-> id, userId |-> userId, items |-> <<>>,
                        totalAmount |-> 0, totalItems |-> 0, version |-> 0]

\* A fetched (or newly inserted) document in memory: nothing modified yet.
\* modified holds the paths assigned a different value since the fetch;
\* pos is the index of the line whose quantity was assigned.
Hydrate(c) == [id |-> c.id, userId |-> c.userId, items |-> c.items,
               totalAmount |-> c.totalAmount, totalItems |-> c.totalItems,
               version |-> c.version, modified |-> {}, pos |-> 0]

\* The persisted fields of an in-memory document.
Persisted(d) == [id |-> d.id, userId |-> d.userId, items |-> d.items,
                 totalAmount |-> d.totalAmount, totalItems |-> d.totalItems,
                 version |-> d.version]

RECURSIVE SumAmount(_)
SumAmount(items) ==
    IF items = <<>> THEN 0
    ELSE Head(items).price * Head(items).quantity + SumAmount(Tail(items))

RECURSIVE SumQuantity(_)
SumQuantity(items) ==
    IF items = <<>> THEN 0
    ELSE Head(items).quantity + SumQuantity(Tail(items))

\* Assignments to document paths; a path is marked modified only when the
\* assigned value differs from the current one.
SetTotalAmount(d, v) ==
    IF v = d.totalAmount THEN d
    ELSE [d EXCEPT !.totalAmount = v, !.modified = @ \cup {"totalAmount"}]

SetTotalItems(d, v) ==
    IF v = d.totalItems THEN d
    ELSE [d EXCEPT !.totalItems = v, !.modified = @ \cup {"totalItems"}]

SetItems(d, arr) ==
    IF arr = d.items THEN d
    ELSE [d EXCEPT !.items = arr, !.modified = @ \cup {"items"}]

SetQuantity(d, i, q) ==
    IF q = d.items[i].quantity THEN d
    ELSE [d EXCEPT !.items[i].quantity = q,
                   !.modified = @ \cup {"items.$.quantity"}, !.pos = i]

PushItem(d, item) ==
    [d EXCEPT !.items = Append(@, item), !.modified = @ \cup {"items.$push"}]

\* this.items.find(item => item.productId.toString() === productId.toString()):
\* the index of the first matching line, 0 when there is none.
FindItem(items, productId) ==
    IF \E i \in 1..Len(items) : items[i].productId = productId
    THEN CHOOSE i \in 1..Len(items) :
            /\ items[i].productId = productId
            /\ \A j \in 1..(i - 1) : items[j].productId # productId
    ELSE 0

\* ---------------------------------------------------------------- instance methods
\* calculateTotals with totalItems counting the lines instead of summing
\* their quantities.
calculateTotalsCountingLines(d) ==
    SetTotalItems(SetTotalAmount(d, SumAmount(d.items)), Scale * Len(d.items))

calculateTotals(d) ==
    SetTotalItems(SetTotalAmount(d, SumAmount(d.items)), SumQuantity(d.items))

\* addProduct appending a line whether or not the product has one.
addProductAppending(d, productData) ==
    calculateTotals(PushItem(d, [productId |-> productData.productId,
                                 name |-> productData.name,
                                 price |-> productData.price,
                                 quantity |-> Scale]))

\* addProduct taking the name and price of an existing line from the new
\* snapshot.
addProductRefreshing(d, productData) ==
    LET i == FindItem(d.items, productData.productId) IN
    IF i > 0
    THEN calculateTotals(SetQuantity([d EXCEPT !.items[i].name = productData.name,
                                               !.items[i].price = productData.price],
                                     i, d.items[i].quantity + Scale))
    ELSE calculateTotals(PushItem(d, [productId |-> productData.productId,
                                      name |-> productData.name,
                                      price |-> productData.price,
                                      quantity |-> Scale]))

addProduct(d, productData) ==
    LET i == FindItem(d.items, productData.productId) IN
    IF i > 0
    THEN calculateTotals(SetQuantity(d, i, d.items[i].quantity + Scale))
    ELSE calculateTotals(PushItem(d, [productId |-> productData.productId,
                                      name |-> productData.name,
                                      price |-> productData.price,
                                      quantity |-> Scale]))

\* removeProduct cutting the item list at the first line of the product.
removeProductTruncating(d, productId) ==
    LET i == FindItem(d.items, productId) IN
    calculateTotals(SetItems(d, IF i = 0 THEN d.items ELSE SubSeq(d.items, 1, i - 1)))

removeProduct(d, productId) ==
    calculateTotals(SetItems(d, SelectSeq(d.items, LAMBDA it : it.productId # productId)))

\* updateQuantity adding the given quantity to the line's instead of
\* replacing it.
updateQuantityAdditive(d, productId, quantity) ==
    IF quantity <= 0 THEN removeProduct(d, productId)
    ELSE LET i == FindItem(d.items, productId) IN
         IF i > 0 THEN calculateTotals(SetQuantity(d, i, d.items[i].quantity + quantity))
         ELSE d

\* updateQuantity without the branch for a quantity of 0 or less.
updateQuantityNoRemoval(d, productId, quantity) ==
    LET i == FindItem(d.items, productId) IN
    IF i > 0 THEN calculateTotals(SetQuantity(d, i, quantity)) ELSE d

\* updateQuantity appending a line of the given quantity when the product
\* has none.
updateQuantityCreatingLine(d, productId, quantity) ==
    IF quantity <= 0 THEN removeProduct(d, productId)
    ELSE LET i == FindItem(d.items, productId) IN
         IF i > 0 THEN calculateTotals(SetQuantity(d, i, quantity))
         ELSE calculateTotals(PushItem(d, [productId |-> productId, name |-> "",
                                           price |-> 0, quantity |-> quantity]))

updateQuantity(d, productId, quantity) ==
    IF quantity <= 0 THEN removeProduct(d, productId)
    ELSE LET i == FindItem(d.items, productId) IN
         IF i > 0 THEN calculateTotals(SetQuantity(d, i, quantity)) ELSE d

\* increaseQuantity appending a line of quantity 1 when the product has none.
increaseQuantityCreatingLine(d, productId) ==
    LET i == FindItem(d.items, productId) IN
    IF i > 0 THEN calculateTotals(SetQuantity(d, i, d.items[i].quantity + Scale))
    ELSE calculateTotals(PushItem(d, [productId |-> productId, name |-> "",
                                      price |-> 0, quantity |-> Scale]))

increaseQuantity(d, productId) ==
    LET i == FindItem(d.items, productId) IN
    IF i > 0 THEN calculateTotals(SetQuantity(d, i, d.items[i].quantity + Scale)) ELSE d

\* decreaseQuantity leaving a line whose quantity has come to 0 in the cart.
decreaseQuantityWithoutRemoval(d, productId) ==
    LET i == FindItem(d.items, productId) IN
    IF i > 0 THEN calculateTotals(SetQuantity(d, i, d.items[i].quantity - Scale)) ELSE d

decreaseQuantity(d, productId) ==
    LET i == FindItem(d.items, productId) IN
    IF i > 0
    THEN LET e == SetQuantity(d, i, d.items[i].quantity - Scale) IN
         IF e.items[i].quantity <= 0 THEN removeProduct(e, productId)
         ELSE calculateTotals(e)
    ELSE d

\* clearCart emptying the item list and leaving the totals as they are.
clearCartKeepingTotals(d) == SetItems(d, <<>>)

clearCart(d) ==
    SetTotalItems(SetTotalAmount(SetItems(d, <<>>), 0), 0)

getCartItems(d) == d.items

isEmpty(d) == Len(d.items) = 0

getCartSummary(d) ==
    [totalItems |-> d.totalItems, totalAmount |-> d.totalAmount,
     itemCount |-> Len(d.items), isEmpty |-> isEmpty(d)]

\* ---------------------------------------------------------------- the collection
\* A lookup that ignores the userId of the query.
findOneAnyUser(userId) ==
    IF carts # {} THEN carts ELSE {NoCart}

\* Model.findOne({ userId }): the documents the query can return.
findOne(userId) ==
    IF \E c \in carts : c.userId = userId
    THEN {c \in carts : c.userId = userId}
    ELSE {NoCart}

\* getUserCart: findOne({ userId }).populate('items.productId').exec().
\* populate reads the catalog and changes only the returned copy.
getUserCart(userId) == findOne(userId)

\* The schema without the unique index.
NoUniqueIndex(userId) == FALSE

\* The unique index on userId: an insert of a second cart of the user is
\* rejected (duplicate key).
UniqueViolation(userId) == \E c \in carts : c.userId = userId

\* Schema validation run by save(): quantity min 1, price min 0, totals min 0.
Validates(d) ==
    /\ \A i \in 1..Len(d.items) : d.items[i].quantity >= Scale /\ d.items[i].price >= 0
    /\ d.totalAmount >= 0
    /\ d.totalItems >= 0

\* cartSchema.pre('save'): totals are recomputed before every save.
PreSave(d) == calculateTotals(d)

\* Whether the update a save sends carries the fetched version as a condition,
\* and whether it increments the version.
\* The version condition on a replaced array only, not on an assigned line.
VersionWhereArrayOnly(d) == "items" \in d.modified

VersionWhere(d) == "items" \in d.modified \/ "items.$.quantity" \in d.modified

VersionInc(d) == "items" \in d.modified \/ "items.$push" \in d.modified

\* An update that sets the items and leaves the stored totals as they are.
ApplyUpdateWithoutTotals(s, d) ==
    [s EXCEPT
       !.items = IF "items" \in d.modified THEN d.items
                 ELSE IF "items.$push" \in d.modified THEN Append(@, d.items[Len(d.items)])
                 ELSE IF "items.$.quantity" \in d.modified
                      THEN [@ EXCEPT ![d.pos].quantity = d.items[d.pos].quantity]
                 ELSE @,
       !.version = IF VersionInc(d) THEN @ + 1 ELSE @]

\* The stored document s after the update that saving d sends.
ApplyUpdate(s, d) ==
    [s EXCEPT
       !.items = IF "items" \in d.modified THEN d.items
                 ELSE IF "items.$push" \in d.modified THEN Append(@, d.items[Len(d.items)])
                 ELSE IF "items.$.quantity" \in d.modified
                      THEN [@ EXCEPT ![d.pos].quantity = d.items[d.pos].quantity]
                 ELSE @,
       !.totalAmount = IF "totalAmount" \in d.modified THEN d.totalAmount ELSE @,
       !.totalItems = IF "totalItems" \in d.modified THEN d.totalItems ELSE @,
       !.version = IF VersionInc(d) THEN @ + 1 ELSE @]

\* The outcome of saving the in-memory document d: "invalid" (validation
\* error), "unchanged" (nothing modified, nothing sent), "version" (the
\* version condition matches no document) or "written".
SaveResult(d) ==
    IF ~Validates(d) THEN "invalid"
    ELSE IF d.modified = {} THEN "unchanged"
    ELSE IF VersionWhere(d) /\ ~(\E s \in carts : s.id = d.id /\ s.version = d.version)
         THEN "version"
    ELSE "written"

\* The update of a save applied whether or not the save is accepted.
SaveStoreUnconditional(d) ==
    {IF s.id = d.id THEN ApplyUpdate(s, d) ELSE s : s \in carts}

\* A save that deletes the cart record once its item list is empty.
SaveStoreDeletingEmptied(d) ==
    IF SaveResult(d) = "written"
    THEN {t \in {IF s.id = d.id THEN ApplyUpdate(s, d) ELSE s : s \in carts} :
            t.id # d.id \/ t.items # <<>>}
    ELSE carts

\* The collection after saving d.
SaveStore(d) ==
    IF SaveResult(d) = "written"
    THEN {IF s.id = d.id THEN ApplyUpdate(s, d) ELSE s : s \in carts}
    ELSE carts

\* The document save() resolves with: the in-memory document, its version
\* incremented when the update incremented it.
Saved(d) ==
    Persisted([d EXCEPT !.version = IF VersionInc(d) THEN @ + 1 ELSE @])

\* ---------------------------------------------------------------- requests
\* The fields of a request body (or of req.params) the handlers read, as the
\* client sent them.
NoBody == [productId |-> "", name |-> "", price |-> Undefined, quantity |-> Undefined]

\* A request slot: where its handler stands, the body it received, its inputs
\* (price and quantity after Number(..)), the document getOrCreateCart
\* returned, and whether getOrCreateCart inserted it.
Idle == [pc |-> "idle", op |-> "", userId |-> "", body |-> NoBody, productId |-> "",
         name |-> "", price |-> 0, quantity |-> 0, cart |-> NoCart, inserted |-> FALSE]

\* A slot whose request was abandoned; it is free like an idle one.
Abandoned == [Idle EXCEPT !.pc = "abandoned"]

\* The latest response sent: the outcome (by status: "validation" 400,
\* "notfound" 404, "conflict" 409, "internal" 500, "created" 201 of /create,
\* "ok" every other success), the cart in its body, and with a 500 the error
\* in its body ("duplicate", "invalid" or "version").  op, userId and body
\* are those of the request it answers; inserted tells whether the request's
\* getOrCreateCart inserted the cart.
NoResponse == [op |-> "", userId |-> "", body |-> NoBody, outcome |-> "",
               cart |-> NoCart, error |-> "", inserted |-> FALSE]

Response(r, outcome, cart, error) ==
    [op |-> r.op, userId |-> r.userId, body |-> r.body, outcome |-> outcome,
     cart |-> cart, error |-> error, inserted |-> r.inserted]

CanStart(p) == req[p].pc \in {"idle", "abandoned"} /\ budget > 0

\* A handler's head: it either answers 400 at once or goes on to its first
\* database call as r.
Begin(p, valid, r) ==
    /\ budget' = budget - 1
    /\ IF valid
       THEN req' = [req EXCEPT ![p] = r] /\ UNCHANGED res
       ELSE /\ res' = Response(r, "validation", NoCart, "")
            /\ req' = [req EXCEPT ![p] = Idle]
    /\ UNCHANGED carts

\* A handler's end: the response is sent and the slot is free.
Respond(p, outcome, cart, error) ==
    /\ res' = Response(req[p], outcome, cart, error)
    /\ req' = [req EXCEPT ![p] = Idle]

\* The in-memory transform of the mutation request r on the document d.
Transform(r, d) ==
    CASE r.op = "add" -> addProduct(d, [productId |-> r.productId, name |-> r.name,
                                         price |-> r.price])
      [] r.op = "remove" -> removeProduct(d, r.productId)
      [] r.op = "quantity" -> updateQuantity(d, r.productId, r.quantity)
      [] r.op = "increase" -> increaseQuantity(d, r.productId)
      [] r.op = "decrease" -> decreaseQuantity(d, r.productId)
      [] r.op = "clear" -> clearCart(d)

\* ---------------------------------------------------------------- route entries
\* The synchronous head of each handler: it reads the request and validates
\* the required fields (status 400 when one is missing).

\* POST /create
PostCreate(p, userId) ==
    /\ CanStart(p)
    /\   Begin(p, userId # "",
               [Idle EXCEPT !.pc = "check", !.op = "create", !.userId = userId])

\* POST /add
PostAdd(p, userId) ==
    /\ CanStart(p)
    /\ \E productId \in Products \cup {""}, snap \in Snapshots :
         Begin(p, ~(userId = "" \/ productId = "" \/ snap.name = ""
                    \/ ~snap.price.defined \/ snap.price.num = 0),
               [Idle EXCEPT !.pc = "getOrCreate", !.op = "add", !.userId = userId,
                            !.body = [NoBody EXCEPT !.productId = productId,
                                                    !.name = snap.name,
                                                    !.price = snap.price],
                            !.productId = productId, !.name = snap.name,
                            !.price = snap.price.num])

\* PUT /:userId/quantity
PutQuantity(p, userId) ==
    /\ CanStart(p)
    /\ userId # ""
    /\ \E productId \in Products \cup {""}, quantity \in QuantityInputs :
         Begin(p, ~(productId = "" \/ ~quantity.defined),
               [Idle EXCEPT !.pc = "getOrCreate", !.op = "quantity", !.userId = userId,
                            !.body = [NoBody EXCEPT !.productId = productId,
                                                    !.quantity = quantity],
                            !.productId = productId, !.quantity = quantity.num])

\* The handlers that take a userId and a productId and differ only in the
\* model method they call.
ProductRoute(p, userId, op) ==
    /\ CanStart(p)
    /\ userId # ""
    /\ \E productId \in Products \cup {""} :
         Begin(p, productId # "",
               [Idle EXCEPT !.pc = "getOrCreate", !.op = op, !.userId = userId,
                            !.body = [NoBody EXCEPT !.productId = productId],
                            !.productId = productId])

\* PATCH /:userId/increase
PatchIncrease(p, userId) == ProductRoute(p, userId, "increase")

\* PATCH /:userId/decrease
PatchDecrease(p, userId) == ProductRoute(p, userId, "decrease")

\* DELETE /:userId/remove
DeleteRemove(p, userId) == ProductRoute(p, userId, "remove")

\* DELETE /:userId/clear
DeleteClear(p, userId) ==
    /\ CanStart(p)
    /\ userId # ""
    /\   Begin(p, TRUE, [Idle EXCEPT !.pc = "getOrCreate", !.op = "clear",
                                     !.userId = userId])

ReadRoute(p, userId, op) ==
    /\ CanStart(p)
    /\ userId # ""
    /\   Begin(p, TRUE, [Idle EXCEPT !.pc = "read", !.op = op, !.userId = userId])

\* GET /:userId
GetCart(p, userId) == ReadRoute(p, userId, "get")

\* GET /:userId/items
GetItems(p, userId) == ReadRoute(p, userId, "items")

\* GET /:userId/summary
GetSummary(p, userId) == ReadRoute(p, userId, "summary")

\* ---------------------------------------------------------------- database steps
\* The read handlers calling getOrCreateCart instead of getUserCart.
ReadCartCreating(p) ==
    /\ req[p].pc = "read"
    /\ \E c \in findOne(req[p].userId) :
         IF c = NoCart
         THEN LET n == NewCart(Cardinality(carts) + 1, req[p].userId) IN
              carts' = carts \cup {n} /\ Respond(p, "ok", n, "")
         ELSE carts' = carts /\ Respond(p, "ok", c, "")
    /\ UNCHANGED budget

\* The read handlers after getUserCart: 404 when there is no cart.
ReadCart(p) ==
    /\ req[p].pc = "read"
    /\ \E c \in getUserCart(req[p].userId) :
         IF c = NoCart THEN Respond(p, "notfound", NoCart, "") ELSE Respond(p, "ok", c, "")
    /\ UNCHANGED <<carts, budget>>

\* POST /create after getUserCart: 409 when a cart exists, else on to
\* getOrCreateCart.
CheckExisting(p) ==
    /\ req[p].pc = "check"
    /\ \E c \in getUserCart(req[p].userId) :
         IF c = NoCart
         THEN req' = [req EXCEPT ![p].pc = "getOrCreate"] /\ UNCHANGED res
         ELSE Respond(p, "conflict", c, "")
    /\ UNCHANGED <<carts, budget>>

\* getOrCreateCart only looking the cart up: the handler answers 404 when
\* there is none.
FindCartOnly(p) ==
    /\ req[p].pc = "getOrCreate"
    /\ \E c \in findOne(req[p].userId) :
         IF c = NoCart THEN Respond(p, "notfound", NoCart, "")
         ELSE IF req[p].op = "create" THEN Respond(p, "created", c, "")
         ELSE req' = [req EXCEPT ![p].pc = "save", ![p].cart = c] /\ UNCHANGED res
    /\ UNCHANGED <<carts, budget>>

\* getOrCreateCart, the findOne: an existing cart is returned as it is.  The
\* create handler answers 201 with whatever getOrCreateCart returns.
FindCart(p) ==
    /\ req[p].pc = "getOrCreate"
    /\ \E c \in findOne(req[p].userId) :
         IF c = NoCart THEN req' = [req EXCEPT ![p].pc = "insert"] /\ UNCHANGED res
         ELSE IF req[p].op = "create" THEN Respond(p, "created", c, "")
         ELSE req' = [req EXCEPT ![p].pc = "save", ![p].cart = c] /\ UNCHANGED res
    /\ UNCHANGED <<carts, budget>>

\* getOrCreateCart catching the duplicate key error and reading the cart
\* again.
InsertCartRereading(p) ==
    /\ req[p].pc = "insert"
    /\ IF UniqueViolation(req[p].userId)
       THEN req' = [req EXCEPT ![p].pc = "getOrCreate"] /\ UNCHANGED <<carts, res>>
       ELSE LET c == NewCart(Cardinality(carts) + 1, req[p].userId) IN
            /\ carts' = carts \cup {c}
            /\ IF req[p].op = "create"
               THEN /\ res' = Response([req[p] EXCEPT !.inserted = TRUE], "created", c, "")
                    /\ req' = [req EXCEPT ![p] = Idle]
               ELSE /\ req' = [req EXCEPT ![p].pc = "save", ![p].cart = c,
                                          ![p].inserted = TRUE]
                    /\ UNCHANGED res
    /\ UNCHANGED budget

\* getOrCreateCart, the save of the new cart: a duplicate key error is thrown
\* to the handler (500).
InsertCart(p) ==
    /\ req[p].pc = "insert"
    /\ IF UniqueViolation(req[p].userId)
       THEN Respond(p, "internal", NoCart, "duplicate") /\ UNCHANGED carts
       ELSE LET c == NewCart(Cardinality(carts) + 1, req[p].userId) IN
            /\ carts' = carts \cup {c}
            /\ IF req[p].op = "create"
               THEN /\ res' = Response([req[p] EXCEPT !.inserted = TRUE], "created", c, "")
                    /\ req' = [req EXCEPT ![p] = Idle]
               ELSE /\ req' = [req EXCEPT ![p].pc = "save", ![p].cart = c,
                                          ![p].inserted = TRUE]
                    /\ UNCHANGED res
    /\ UNCHANGED budget

\* The mutation methods after getOrCreateCart: the in-memory transform and
\* cart.save().  A failed save is thrown to the handler (500).
SaveCart(p) ==
    /\ req[p].pc = "save"
    /\ LET d == PreSave(Transform(req[p], Hydrate(req[p].cart))) IN
         /\ carts' = SaveStore(d)
         /\ IF SaveResult(d) \in {"written", "unchanged"}
            THEN Respond(p, "ok", Saved(d), "")
            ELSE Respond(p, "internal", NoCart, SaveResult(d))
    /\ UNCHANGED budget

\* A request abandoned while it waits for the database: nothing more of it
\* runs and no response is sent.
Abandon(p) ==
    /\ req[p].pc \notin {"idle", "abandoned"}
    /\ req' = [req EXCEPT ![p] = Abandoned]
    /\ UNCHANGED <<carts, res, budget>>

\* ---------------------------------------------------------------- specifications
\* The database outlives the server: a run starts on an empty collection or
\* on one an earlier run left (here one cart holding one line).
InitialStores ==
    {{},
     {[id |-> 1, userId |-> "u1",
       items |-> <<[productId |-> "p1", name |-> "a", price |-> 1, quantity |-> Scale]>>,
       totalAmount |-> Scale, totalItems |-> Scale, version |-> 1]}}

Start(n) ==
    /\ carts \in InitialStores
    /\ req = [p \in Procs |-> Idle]
    /\ res = NoResponse
    /\ budget = n

\* A request arrives at slot p for userId ("" when the body names none).
Entry(p, userId) ==
    \/ PostCreate(p, userId) \/ PostAdd(p, userId) \/ PutQuantity(p, userId)
    \/ PatchIncrease(p, userId) \/ PatchDecrease(p, userId)
    \/ DeleteRemove(p, userId) \/ DeleteClear(p, userId)
    \/ GetCart(p, userId) \/ GetItems(p, userId) \/ GetSummary(p, userId)

\* A database call of the request at slot p completes.
Continue(p) ==
    \/ ReadCart(p) \/ CheckExisting(p) \/ FindCart(p) \/ InsertCart(p)
    \/ SaveCart(p) \/ Abandon(p)

\* Concurrent requests on one user's cart.
Init == Start(MaxOps)

Next ==
    \/ \E p \in Procs, userId \in {"u1", ""} : Entry(p, userId)
    \/ \E p \in Procs : Continue(p)

Spec == Init /\ [][Next]_vars

\* One request at a time on one user's cart: every request completes before
\* the next arrives.
InitSeq == Start(MaxSeqOps)

NextSeq ==
    \/ \E userId \in {"u1", ""} : Entry("r1", userId)
    \/ Continue("r1")

SpecSeq == InitSeq /\ [][NextSeq]_vars

\* Concurrent requests on the carts of two users: the requests of u1 arrive
\* at slot r1 and those of u2 at slot r2, so requests of different users
\* overlap and those of one user do not.
NextUsers ==
    \/ Entry("r1", "u1")
    \/ Entry("r2", "u2")
    \/ \E p \in Procs : Continue(p)

SpecUsers == Init /\ [][NextUsers]_vars

\* ---------------------------------------------------------------- properties
\* The operations that change a cart, and those that only read it.
Mutations == {"add", "remove", "quantity", "increase", "decrease", "clear"}

Reads == {"get", "items", "summary"}

\* The carts stored for a user.
CartsOf(userId) == {c \in carts : c.userId = userId}

\* The totals of c are the ones recomputed from its lines.
TotalsRecomputed(c) ==
    /\ c.totalAmount = SumAmount(c.items)
    /\ c.totalItems = SumQuantity(c.items)

\* C1: when the mutations of a cart are applied one after another, every
\* stored cart, and every cart a response carries, has totalAmount equal to
\* the sum of price * quantity over its lines and totalItems equal to the sum
\* of the quantities; with no lines both are 0.
SequentialTotals ==
    /\ \A c \in carts : TotalsRecomputed(c) /\ (c.items = <<>> => c.totalAmount = 0 /\ c.totalItems = 0)
    /\ res.cart # NoCart => TotalsRecomputed(res.cart)

\* C1 witness: a mutation has been persisted and left a cart of two lines
\* whose quantities are not both 1.
SequentialTotalsWitness ==
    /\ res.op \in Mutations /\ res.outcome = "ok"
    /\ \E c \in carts : /\ Len(c.items) = 2
                        /\ c.totalItems > 2 * Scale
                        /\ c = res.cart

\* C2: no stored cart holds two lines of the same productId.
OneLinePerProduct ==
    \A c \in carts : \A i, j \in 1..Len(c.items) :
        c.items[i].productId = c.items[j].productId => i = j

\* C3: every line of every stored cart has a whole quantity of at least 1.
QuantitiesWholeAndPositive ==
    \A c \in carts : \A i \in 1..Len(c.items) :
        c.items[i].quantity >= Scale /\ c.items[i].quantity % Scale = 0

\* C4: the collection never holds two carts of one user.
OneCartPerUser ==
    \A c1, c2 \in carts : c1.userId = c2.userId => c1 = c2

\* C4 witness: two getOrCreateCart calls both found no cart, one inserted,
\* and the other's insert was rejected: the create request that lost answers
\* 500 and the user has one cart.
OneCartPerUserWitness ==
    /\ res.op = "create" /\ res.outcome = "internal" /\ res.error = "duplicate"
    /\ Cardinality(CartsOf(res.userId)) = 1

\* C5: a create request answers "created" only when it inserted the cart itself.
CreatedOnlyByInsert ==
    (res.op = "create" /\ res.outcome = "created") => res.inserted

\* C6: a read request never changes the collection, and on a user without a
\* cart it answers not-found.
ReadsOnlyLookUp ==
    [][\A p \in Procs :
         /\ ((req[p].op \in Reads \/ req'[p].op \in Reads) /\ req'[p] # req[p])
               => carts' = carts
         /\ (req[p].pc = "read" /\ req'[p].pc = "idle" /\ CartsOf(req[p].userId) = {})
               => (res'.outcome = "notfound" /\ res'.op = req[p].op /\ res'.cart = NoCart)
      ]_vars

\* C6 witness: a read of a user without a cart has answered not-found and the
\* user still has no cart.
ReadsOnlyLookUpWitness ==
    /\ res.op \in Reads /\ res.outcome = "notfound"
    /\ CartsOf(res.userId) = {}

\* The lines of the cart a mutation request r leaves when applied to a new,
\* empty cart.
OnEmptyCart(r) ==
    IF r.op = "add"
    THEN <<[productId |-> r.productId, name |-> r.name, price |-> r.price,
            quantity |-> Scale]>>
    ELSE <<>>

\* C7, the claim as made: a mutation on a user without a cart (its
\* getOrCreateCart inserted the cart) completes successfully.
MutationWithoutCartSucceeds ==
    (res.op \in Mutations /\ res.inserted) => res.outcome = "ok"

\* C7 as amended: with one request at a time, a mutation on a user without a
\* cart never answers not-found: its getOrCreateCart inserts an empty cart,
\* and its save answers with the transform applied to that cart, which is
\* then the stored one; except an add with a negative price, whose save the
\* schema rejects: it answers 500 and the new cart stays empty.
MutationAutoCreates ==
    [][\A p \in Procs : req[p].op \in Mutations =>
         /\ (req[p].pc = "getOrCreate" /\ CartsOf(req[p].userId) = {} /\ req'[p] # req[p])
               => req'[p].pc \in {"insert", "abandoned"}
         /\ (req[p].pc = "insert" /\ req'[p] # req[p] /\ req'[p].pc # "abandoned")
               => /\ req'[p].pc = "save" /\ req'[p].inserted
                  /\ req'[p].cart \in carts' \ carts
                  /\ req'[p].cart.userId = req[p].userId
                  /\ req'[p].cart.items = <<>>
         /\ (req[p].pc = "save" /\ req[p].inserted /\ req'[p].pc = "idle")
               => IF req[p].op = "add" /\ req[p].price < 0
                  THEN /\ res'.outcome = "internal" /\ res'.error = "invalid"
                       /\ carts' = carts
                  ELSE /\ res'.outcome = "ok"
                       /\ res'.cart \in carts'
                       /\ res'.cart.userId = req[p].userId
                       /\ res'.cart.items = OnEmptyCart(req[p])
                       /\ Cardinality(carts') = Cardinality(carts)
      ]_vars

\* C7 witness: a decrease for a user without a cart has created the cart and
\* answered with it.
MutationAutoCreatesWitness ==
    /\ res.op = "decrease" /\ res.inserted /\ res.outcome = "ok"
    /\ res.cart \in carts /\ res.cart.items = <<>>

\* C8, the claim as made: a set-quantity request for a user without a cart
\* answers not-found.
SetQuantityWithoutCartNotFound ==
    (res.op = "quantity" /\ res.inserted) => res.outcome = "notfound"

\* C8 as amended: with one request at a time, a set-quantity request never
\* answers not-found.  For a user without a cart it creates an empty cart and
\* answers with it.  Otherwise it answers with the updated cart (the line's
\* quantity set to the given one, the line removed when that is 0 or less,
\* nothing changed when there is no such line), which is then the stored one;
\* except a quantity between 0 and 1 for an existing line, which the schema
\* rejects: it answers 500 and the cart is unchanged.
SetQuantityCreates ==
    [][\A p \in Procs : req[p].op = "quantity" =>
         /\ (req[p].pc = "getOrCreate" /\ CartsOf(req[p].userId) = {} /\ req'[p] # req[p])
               => req'[p].pc \in {"insert", "abandoned"}
         /\ (req[p].pc = "save" /\ req'[p].pc = "idle")
               => LET c == req[p].cart
                      q == req[p].quantity
                      has == \E i \in 1..Len(c.items) : c.items[i].productId = req[p].productId
                  IN  IF has /\ q > 0 /\ q < Scale
                      THEN /\ res'.outcome = "internal" /\ res'.error = "invalid"
                           /\ carts' = carts
                      ELSE /\ res'.outcome = "ok"
                           /\ res'.cart \in carts'
                           /\ res'.cart.id = c.id
                           /\ req[p].inserted => res'.cart.items = <<>>
                           /\ ~has => res'.cart.items = c.items
                           /\ (has /\ q <= 0) =>
                                \A i \in 1..Len(res'.cart.items) :
                                    res'.cart.items[i].productId # req[p].productId
                           /\ (has /\ q >= Scale) =>
                                /\ Len(res'.cart.items) = Len(c.items)
                                /\ \A i \in 1..Len(c.items) :
                                     IF c.items[i].productId = req[p].productId
                                     THEN res'.cart.items[i].quantity = q
                                     ELSE res'.cart.items[i] = c.items[i]
      ]_vars

\* C8 witness: a set-quantity request for a user without a cart has answered
\* with a newly created empty cart.
SetQuantityCreatesWitness ==
    /\ res.op = "quantity" /\ res.inserted /\ res.outcome = "ok"
    /\ res.cart \in carts /\ res.cart.items = <<>>

\* C9, the claim as made: no version check rejects a write.
NoVersionRejection == res.error # "version"

\* C9 as amended: the save of an increase whose line was in the fetched cart
\* succeeds whenever the stored version is still the fetched one, and it
\* stores the fetched quantity plus 1 whatever the stored quantity has become
\* (so of two increases that both fetched quantity q the later leaves q + 1);
\* when an overlapping save has appended to or replaced the item list, the
\* stored version differs and the save is rejected, leaving the store as it is.
LaterWriteWins ==
    [][\A p \in Procs :
         (req[p].op = "increase" /\ req[p].pc = "save" /\ req'[p].pc = "idle") =>
            LET c == req[p].cart
                i == FindItem(c.items, req[p].productId)
            IN  i > 0 => \A s \in carts : s.id = c.id =>
                   IF s.version = c.version
                   THEN /\ res'.outcome = "ok"
                        /\ res'.cart.items[i].quantity = c.items[i].quantity + Scale
                        /\ \E t \in carts' :
                             /\ t.id = c.id
                             /\ Len(t.items) = Len(c.items)
                             /\ t.items[i].productId = req[p].productId
                             /\ t.items[i].quantity = c.items[i].quantity + Scale
                   ELSE /\ res'.outcome = "internal" /\ res'.error = "version"
                        /\ carts' = carts
      ]_vars

\* C9 witness: an increase has answered success, and a second increase of the
\* same line that fetched the quantity from before it is about to save onto
\* the unchanged version.
LaterWriteWinsWitness ==
    /\ res.op = "increase" /\ res.outcome = "ok"
    /\ \E p \in Procs :
         /\ req[p].op = "increase" /\ req[p].pc = "save"
         /\ LET c == req[p].cart
                i == FindItem(c.items, req[p].productId)
            IN  /\ i > 0
                /\ res.cart.id = c.id
                /\ res.cart.items[i].productId = req[p].productId
                /\ \E s \in carts :
                     /\ s.id = c.id /\ s.version = c.version
                     /\ s.items[i].quantity = c.items[i].quantity + Scale

\* C10: every stored cart has the totals recomputed from its stored lines,
\* whatever the interleaving and whichever requests were abandoned.
DurableSnapshotsConsistent ==
    \A c \in carts : c.totalAmount = SumAmount(c.items) /\ c.totalItems = SumQuantity(c.items)

\* C11: when the save of a cart operation fails (the insert of a new cart is
\* rejected as a duplicate, or the save of the mutated cart fails validation
\* or its version condition), the collection is exactly as it was before that
\* save, the response is the internal failure and it carries no cart.
FailedSaveLeavesStore ==
    [][\A p \in Procs :
         (req[p].pc \in {"insert", "save"} /\ req'[p].pc = "idle") =>
            /\ res'.outcome \in {"ok", "created", "internal"}
            /\ res'.outcome = "internal" =>
                  /\ carts' = carts
                  /\ res'.cart = NoCart
                  /\ res'.error \in {"duplicate", "invalid", "version"}
      ]_vars

\* C11 witness: the save of a mutation has been rejected by its version
\* condition and the user's cart is stored.
FailedSaveLeavesStoreWitness ==
    /\ res.op \in Mutations /\ res.outcome = "internal" /\ res.error = "version"
    /\ CartsOf(res.userId) # {}

\* C12: requests of different users are independent.  A step of a request
\* leaves the carts of every other user, and the other user's request in
\* flight, as they are; and when only requests of different users overlap,
\* nothing of one stops the other: no insert is rejected as a duplicate and no
\* save by its version condition, an insert for a user without a cart stores
\* that user's cart, and a save of a cart that passes the schema is answered
\* with success.
UsersIndependent ==
    /\ [](res.error \notin {"duplicate", "version"})
    /\ [][/\ \A p, q \in Procs : (req'[p] # req[p] /\ req'[q] # req[q]) => p = q
          /\ \A p \in Procs :
               (req[p].pc = "save" /\ req'[p].pc = "idle")
                  => (res'.outcome = "ok" \/ res'.error = "invalid")
          /\ \A u \in Users :
               (\A p \in Procs : req'[p] # req[p] =>
                                    (req[p].userId # u /\ req'[p].userId # u))
                  => {c \in carts' : c.userId = u} = CartsOf(u)
          /\ \A p \in Procs :
               (req[p].pc = "insert" /\ req'[p].pc \in {"save", "idle"})
                  => \E c \in carts' \ carts : c.userId = req[p].userId
         ]_vars

\* C12 witness: a mutation of u2 has been saved and answered while a request
\* of u1, whose cart is stored, waits for its own save.
UsersIndependentWitness ==
    /\ res.userId = "u2" /\ res.op \in Mutations /\ res.outcome = "ok"
    /\ res.cart \in carts /\ res.cart.items # <<>>
    /\ req["r1"].pc = "save" /\ req["r1"].userId = "u1"
    /\ CartsOf("u1") # {}

\* The lines of a cart that hold the productId.
LinesOf(c, productId) == {i \in 1..Len(c.items) : c.items[i].productId = productId}

\* C13: on every stored cart addProduct appends one line of quantity 1 with
\* the supplied name and price when the productId has no line, and raises
\* the quantity of the productId's line by 1, appending nothing, when it has
\* one.  With one request at a time the add request is answered with that
\* cart, its totals raised accordingly, which is then the stored cart, so no
\* stored cart ever holds two lines of one productId; its save is rejected
\* only when the appended line has a negative price.
AddProductMergesLines ==
    /\ [](\A c \in carts : \A productId \in Products :
             /\ Cardinality(LinesOf(c, productId)) <= 1
             /\ \A price \in {-1, 1, 2} :
                  LET d == addProduct(Hydrate(c), [productId |-> productId,
                                                   name |-> "b", price |-> price])
                      i == FindItem(c.items, productId)
                  IN  IF i = 0
                      THEN d.items = Append(c.items, [productId |-> productId, name |-> "b",
                                                      price |-> price, quantity |-> Scale])
                      ELSE d.items = [c.items EXCEPT ![i].quantity = @ + Scale])
    /\ [][\A p \in Procs :
           (req[p].op = "add" /\ req[p].pc = "save" /\ req'[p].pc = "idle") =>
              LET c == req[p].cart
                  t == res'.cart
                  absent == LinesOf(c, req[p].productId) = {}
              IN  IF absent /\ req[p].price < 0
                  THEN res'.outcome = "internal"
                  ELSE /\ res'.outcome = "ok"
                       /\ t \in carts'
                       /\ t.totalItems = c.totalItems + Scale
                       /\ IF absent
                          THEN /\ t.items = Append(c.items,
                                       [productId |-> req[p].productId,
                                        name |-> req[p].name,
                                        price |-> req[p].price,
                                        quantity |-> Scale])
                               /\ t.totalAmount = c.totalAmount + req[p].price * Scale
                          ELSE /\ Len(t.items) = Len(c.items)
                               /\ \A i \in 1..Len(c.items) :
                                    IF c.items[i].productId = req[p].productId
                                    THEN t.items[i].quantity = c.items[i].quantity + Scale
                                    ELSE t.items[i] = c.items[i]
         ]_vars

\* C13 witness: two requests have been served, the second an add of p2, and
\* the cart holds one line of p2 with quantity 2: both were adds of p2, the
\* first on a cart without it.
AddProductMergesLinesWitness ==
    /\ budget = MaxSeqOps - 2
    /\ res.op = "add" /\ res.outcome = "ok" /\ res.body.productId = "p2"
    /\ res.cart \in carts
    /\ \E i \in 1..Len(res.cart.items) :
         /\ LinesOf(res.cart, "p2") = {i}
         /\ res.cart.items[i].quantity = 2 * Scale

\* C14: with one request at a time, the name and price of a line never change
\* while the line stays in the cart; an add for a productId that has a line
\* changes only that line's quantity, whatever snapshot it supplies, and
\* totalAmount grows by the stored price.
SnapshotFixedAtCreation ==
    [][/\ \A c \in carts : \A t \in carts' : c.id = t.id =>
            \A i \in 1..Len(c.items) : \A j \in 1..Len(t.items) :
                c.items[i].productId = t.items[j].productId =>
                   /\ t.items[j].name = c.items[i].name
                   /\ t.items[j].price = c.items[i].price
       /\ \A p \in Procs :
            (req[p].op = "add" /\ req[p].pc = "save" /\ req'[p].pc = "idle") =>
               LET c == req[p].cart
                   i == FindItem(c.items, req[p].productId)
               IN  i > 0 =>
                     /\ res'.outcome = "ok"
                     /\ res'.cart.items = [c.items EXCEPT ![i].quantity = @ + Scale]
                     /\ res'.cart.totalAmount = c.totalAmount + c.items[i].price * Scale
                     /\ res'.cart \in carts'
      ]_vars

\* C14 witness: an add that supplied the name "b" and the price 2 has been
\* answered, and the line of its productId still has the name "a" and the
\* price 1 it was created with, at a quantity of 2 or more.
SnapshotFixedAtCreationWitness ==
    /\ res.op = "add" /\ res.outcome = "ok"
    /\ res.body.name = "b" /\ res.body.price = Num(2)
    /\ res.cart \in carts
    /\ \E i \in 1..Len(res.cart.items) :
         /\ res.cart.items[i].productId = res.body.productId
         /\ res.cart.items[i].name = "a" /\ res.cart.items[i].price = 1
         /\ res.cart.items[i].quantity >= 2 * Scale

\* The lines of c without those of the productId.
WithoutProduct(c, productId) ==
    SelectSeq(c.items, LAMBDA it : it.productId # productId)

\* C15: on every stored cart, for every productId (with or without a line)
\* and every quantity of 0 or less, updateQuantity and removeProduct leave the
\* same document (items, totals and the paths to save); and with one request
\* at a time a set-quantity request with such a quantity and a remove request
\* are both answered with the fetched cart without the lines of the
\* productId, its totals recomputed, which is then the stored cart.
NonPositiveQuantityRemoves ==
    /\ [](\A c \in carts : \A productId \in Products : \A q \in {-Scale, -1, 0} :
             updateQuantity(Hydrate(c), productId, q) = removeProduct(Hydrate(c), productId))
    /\ [][\A p \in Procs :
           (/\ req[p].pc = "save" /\ req'[p].pc = "idle"
            /\ \/ req[p].op = "remove"
               \/ req[p].op = "quantity" /\ req[p].quantity <= 0) =>
              LET rest == WithoutProduct(req[p].cart, req[p].productId) IN
              /\ res'.outcome = "ok"
              /\ res'.cart.items = rest
              /\ res'.cart.totalAmount = SumAmount(rest)
              /\ res'.cart.totalItems = SumQuantity(rest)
              /\ res'.cart \in carts'
         ]_vars

\* C15 witness: a set-quantity request with a quantity of 0 or less has
\* removed the last line of a cart that existed before it.
NonPositiveQuantityRemovesWitness ==
    /\ res.op = "quantity" /\ res.outcome = "ok" /\ ~res.inserted
    /\ res.body.quantity.defined /\ res.body.quantity.num <= 0
    /\ res.cart \in carts
    /\ res.cart.items = <<>> /\ res.cart.version >= 2

\* The document decreaseQuantity is to leave, from the lines of c: nothing
\* changed when the productId has no line, the line removed when its
\* quantity was 1 (or less), and else that line's quantity lowered by 1.
Decreased(c, productId) ==
    LET i == FindItem(c.items, productId) IN
    IF i = 0 THEN c.items
    ELSE IF c.items[i].quantity <= Scale THEN WithoutProduct(c, productId)
    ELSE [c.items EXCEPT ![i].quantity = @ - Scale]

\* C16: on every stored cart decreaseQuantity lowers the quantity of the
\* productId's line by exactly 1, removes the line when its quantity was 1,
\* and changes nothing when there is no such line, the totals being those of
\* the lines left; with one request at a time a decrease request is answered
\* with that cart, which is then the stored one (a cart holding only a line
\* of quantity 1 becomes items = [], totals 0), unless the lowered quantity is
\* below 1 and above 0, which the schema rejects.
DecreaseLowersOrRemoves ==
    /\ [](\A c \in carts : \A productId \in Products :
             LET d == decreaseQuantity(Hydrate(c), productId) IN
             /\ d.items = Decreased(c, productId)
             /\ d.totalAmount = SumAmount(d.items)
             /\ d.totalItems = SumQuantity(d.items)
             /\ LinesOf(c, productId) = {} => Persisted(d) = c)
    /\ [][\A p \in Procs :
           (req[p].op = "decrease" /\ req[p].pc = "save" /\ req'[p].pc = "idle") =>
              LET c == req[p].cart
                  left == Decreased(c, req[p].productId)
              IN  IF \E i \in 1..Len(left) : left[i].quantity < Scale
                  THEN res'.outcome = "internal" /\ carts' = carts
                  ELSE /\ res'.outcome = "ok"
                       /\ res'.cart.items = left
                       /\ res'.cart.totalAmount = SumAmount(left)
                       /\ res'.cart.totalItems = SumQuantity(left)
                       /\ res'.cart \in carts'
         ]_vars

\* C16 witness: the first request of a run, a decrease of the only line of
\* the stored cart (quantity 1), has left the cart with no lines and totals 0.
DecreaseLowersOrRemovesWitness ==
    /\ budget = MaxSeqOps - 1
    /\ res.op = "decrease" /\ res.outcome = "ok" /\ ~res.inserted
    /\ res.cart \in carts
    /\ res.cart.items = <<>> /\ res.cart.totalAmount = 0 /\ res.cart.totalItems = 0
    /\ res.cart.version >= 2

\* C17: clearCart applied to any stored cart yields items = [],
\* totalAmount = 0 and totalItems = 0; and with one request at a time a clear
\* request is answered with the user's cart emptied so, which is then the
\* stored cart.
ClearYieldsEmptyCart ==
    /\ [](\A c \in carts :
             LET d == clearCart(Hydrate(c)) IN
             d.items = <<>> /\ d.totalAmount = 0 /\ d.totalItems = 0)
    /\ [][\A p \in Procs :
           (req[p].op = "clear" /\ req[p].pc = "save" /\ req'[p].pc = "idle") =>
              /\ res'.outcome = "ok"
              /\ res'.cart.id = req[p].cart.id /\ res'.cart.userId = req[p].userId
              /\ res'.cart.items = <<>>
              /\ res'.cart.totalAmount = 0 /\ res'.cart.totalItems = 0
              /\ res'.cart \in carts'
              /\ CartsOf(req[p].userId) = {req[p].cart}
              /\ {c \in carts' : c.userId = req[p].userId} = {res'.cart}
         ]_vars

\* C17 witness: a clear request has emptied a stored cart whose item list an
\* earlier request of the run had changed.
ClearYieldsEmptyCartWitness ==
    /\ res.op = "clear" /\ res.outcome = "ok" /\ ~res.inserted
    /\ res.cart \in carts
    /\ res.cart.items = <<>> /\ res.cart.totalAmount = 0 /\ res.cart.totalItems = 0
    /\ res.cart.version >= 3

\* C18: a cart record, once stored, is stored in every later state: no step
\* of any request, whatever the interleaving, takes a record out of the
\* collection or gives it to another user; a clear, a remove of the last line
\* and a decrease to zero leave the record with no lines.
CartRecordNeverDeleted ==
    [][\A c \in carts : \E t \in carts' : t.id = c.id /\ t.userId = c.userId]_vars

\* C18 witness: a clear, a remove or a decrease has taken the last line out
\* of a cart that existed before the request, and the record is stored with
\* no lines.
CartRecordNeverDeletedWitness ==
    /\ res.op \in {"clear", "remove", "decrease"} /\ res.outcome = "ok" /\ ~res.inserted
    /\ res.cart.items = <<>>
    /\ \E c \in carts : c.id = res.cart.id /\ c.items = <<>> /\ c.version >= 2

\* C19: when a mutation's getOrCreateCart found no cart and another request
\* has created the user's cart since, its insert is rejected by the unique
\* index: the request ends there with the internal failure (duplicate key),
\* the collection is unchanged, and it neither reads the cart again nor goes
\* on to its save.
RacingCreateLoserFails ==
    [][\A p \in Procs :
         (/\ req[p].op \in Mutations /\ req[p].pc = "insert"
          /\ CartsOf(req[p].userId) # {}
          /\ req'[p] # req[p] /\ req'[p].pc # "abandoned") =>
            /\ req'[p].pc = "idle"
            /\ res'.op = req[p].op /\ res'.userId = req[p].userId
            /\ res'.outcome = "internal" /\ res'.error = "duplicate"
            /\ res'.cart = NoCart
            /\ carts' = carts
      ]_vars

\* C19 witness: two mutations both found no cart; one inserted the cart and
\* waits for its save, the other's insert was rejected and it has answered
\* the internal failure; the user has one cart, still empty.
RacingCreateLoserFailsWitness ==
    /\ res.op \in Mutations /\ res.outcome = "internal" /\ res.error = "duplicate"
    /\ \E q \in Procs : /\ req[q].pc = "save" /\ req[q].inserted
                         /\ req[q].userId = res.userId
                         /\ CartsOf(res.userId) = {req[q].cart}
                         /\ req[q].cart.items = <<>>

\* The items and totals of a document.
Contents(c) == [items |-> c.items, totalAmount |-> c.totalAmount,
                totalItems |-> c.totalItems]

\* C20, the claim as made: with one request at a time, every mutation that
\* comes to its save returns a cart that is the stored cart of the user after
\* it, and that is the transform applied to the stored cart before it.
SequentialRefinement ==
    [][\A p \in Procs :
         (req[p].op \in Mutations /\ req[p].pc = "save" /\ req'[p].pc = "idle") =>
            \A s \in CartsOf(req[p].userId) :
               /\ res'.cart \in carts'
               /\ Contents(res'.cart) = Contents(Transform(req[p], Hydrate(s)))
      ]_vars

\* C20 as amended: with one request at a time, the cart a mutation fetched is
\* the stored cart of the user when it saves.  When the transform of that
\* cart passes the schema (every quantity at least 1, every price at least
\* 0), the request returns the transformed cart and that is the user's stored
\* cart after it; when it does not, the request ends with the internal
\* failure, returns no cart and leaves the stored cart as it was.
SequentialRefinementWhenValid ==
    [][\A p \in Procs :
         (req[p].op \in Mutations /\ req[p].pc = "save" /\ req'[p].pc = "idle") =>
            /\ CartsOf(req[p].userId) = {req[p].cart}
            /\ \A s \in CartsOf(req[p].userId) :
                 LET e == Transform(req[p], Hydrate(s)) IN
                 IF \A i \in 1..Len(e.items) :
                        e.items[i].quantity >= Scale /\ e.items[i].price >= 0
                 THEN /\ res'.outcome = "ok"
                      /\ Contents(res'.cart) = Contents(e)
                      /\ res'.cart.id = s.id /\ res'.cart.userId = s.userId
                      /\ {c \in carts' : c.userId = req[p].userId} = {res'.cart}
                 ELSE /\ res'.outcome = "internal" /\ res'.error = "invalid"
                      /\ res'.cart = NoCart
                      /\ carts' = carts
      ]_vars

\* C20 witness: the last of the run's requests, a mutation, has been answered
\* with a cart of two lines, which is the stored cart.
SequentialRefinementWhenValidWitness ==
    /\ budget = 0
    /\ res.op \in Mutations /\ res.outcome = "ok"
    /\ res.cart \in carts
    /\ Len(res.cart.items) = 2 /\ res.cart.version >= 2

\* C21: on every stored cart, updateQuantity with a quantity above 0 sets the
\* quantity of the productId's line to exactly that value and leaves every
\* other line as it is, and when the productId has no line it leaves items
\* and totals unchanged and creates no line.  With one request at a time the
\* set-quantity request is answered with that cart, which is then the stored
\* one; its save is rejected only when the value set on a line is below 1.
UpdateQuantitySetsExactly ==
    /\ [](\A c \in carts : \A productId \in Products :
             \A q \in {1, Scale, Scale + 1, 2 * Scale} :
                LET d == updateQuantity(Hydrate(c), productId, q)
                    i == FindItem(c.items, productId)
                IN  IF i = 0
                    THEN Persisted(d) = c /\ d.modified = {}
                    ELSE /\ Len(d.items) = Len(c.items)
                         /\ d.items[i] = [c.items[i] EXCEPT !.quantity = q]
                         /\ \A j \in 1..Len(c.items) : j # i => d.items[j] = c.items[j])
    /\ [][\A p \in Procs :
           (/\ req[p].op = "quantity" /\ req[p].quantity > 0
            /\ req[p].pc = "save" /\ req'[p].pc = "idle") =>
              LET c == req[p].cart
                  i == FindItem(c.items, req[p].productId)
              IN  IF i > 0 /\ req[p].quantity < Scale
                  THEN res'.outcome = "internal" /\ carts' = carts
                  ELSE /\ res'.outcome = "ok"
                       /\ res'.cart \in carts'
                       /\ IF i = 0
                          THEN Contents(res'.cart) = Contents(c)
                          ELSE res'.cart.items = [c.items EXCEPT ![i].quantity = req[p].quantity]
         ]_vars

\* C21 witness: a set-quantity request with the quantity 1.5 has been
\* answered with a cart of two lines in which the line of its productId has
\* that quantity and the other line the quantity 1 it was created with.
UpdateQuantitySetsExactlyWitness ==
    /\ res.op = "quantity" /\ res.outcome = "ok"
    /\ res.body.quantity = Num(Scale + 1)
    /\ res.cart \in carts
    /\ Len(res.cart.items) = 2
    /\ \E i, j \in 1..2 :
         /\ i # j
         /\ res.cart.items[i].productId = res.body.productId
         /\ res.cart.items[i].quantity = Scale + 1
         /\ res.cart.items[j].quantity = Scale
         /\ res.cart.totalItems = 2 * Scale + 1

\* C22: on every stored cart whose totals are those of its lines,
\* increaseQuantity raises the quantity of the productId's line by exactly 1,
\* totalItems by 1 and totalAmount by that line's price, and leaves the other
\* lines as they are; when the productId has no line it changes nothing and
\* creates no line.  With one request at a time the increase request is
\* answered with that cart, which is then the stored one.
IncreaseRaisesByOne ==
    /\ [](\A c \in carts : \A productId \in Products :
             LET d == increaseQuantity(Hydrate(c), productId)
                 i == FindItem(c.items, productId)
             IN  IF i = 0
                 THEN Persisted(d) = c /\ d.modified = {}
                 ELSE /\ Len(d.items) = Len(c.items)
                      /\ d.items[i] = [c.items[i] EXCEPT !.quantity = @ + Scale]
                      /\ \A j \in 1..Len(c.items) : j # i => d.items[j] = c.items[j]
                      /\ d.totalItems = c.totalItems + Scale
                      /\ d.totalAmount = c.totalAmount + c.items[i].price * Scale)
    /\ [][\A p \in Procs :
           (req[p].op = "increase" /\ req[p].pc = "save" /\ req'[p].pc = "idle") =>
              LET c == req[p].cart
                  i == FindItem(c.items, req[p].productId)
              IN  /\ res'.outcome = "ok"
                  /\ res'.cart \in carts'
                  /\ IF i = 0
                     THEN Contents(res'.cart) = Contents(c)
                     ELSE /\ res'.cart.items = [c.items EXCEPT ![i].quantity = @ + Scale]
                          /\ res'.cart.totalItems = c.totalItems + Scale
                          /\ res'.cart.totalAmount = c.totalAmount + c.items[i].price * Scale
         ]_vars

\* C22 witness: an increase has raised a line of quantity 2 to quantity 3: the
\* cart's only line has quantity 3 and the totals are 3 and 3 times its price.
IncreaseRaisesByOneWitness ==
    /\ res.op = "increase" /\ res.outcome = "ok"
    /\ res.cart \in carts
    /\ Len(res.cart.items) = 1
    /\ res.cart.items[1].productId = res.body.productId
    /\ res.cart.items[1].quantity = 3 * Scale
    /\ res.cart.totalItems = 3 * Scale
    /\ res.cart.totalAmount = 3 * Scale * res.cart.items[1].price

\* r holds exactly the lines of items whose productId is not the given one,
\* in the order they have in items.
KeepsOthersInOrder(r, items, productId) ==
    LET keep == {j \in 1..Len(items) : items[j].productId # productId} IN
    /\ Len(r) = Cardinality(keep)
    /\ \A j \in keep : r[Cardinality({m \in keep : m <= j})] = items[j]

\* A document holding a line of another product before and after the lines
\* of c.
Surrounded(c) ==
    Hydrate([c EXCEPT !.items =
        <<[productId |-> "p0", name |-> "a", price |-> 1, quantity |-> Scale]>>
        \o @ \o
        <<[productId |-> "p9", name |-> "b", price |-> 2, quantity |-> 2 * Scale]>>])

\* C23: removeProduct deletes the lines of the productId and leaves every
\* other line, in the same order, with the totals of the lines left; when the
\* productId has no line the cart's items and totals are unchanged.  This
\* holds on every stored cart and on every stored cart with further lines
\* around its own.  With one request at a time the remove request, whether or
\* not the productId has a line, is answered with success and that cart,
\* which is then the stored one.
RemoveDeletesOnlyThatLine ==
    /\ [](\A c \in carts : \A productId \in Products \cup {"p0", "p9"} :
             /\ LET d == removeProduct(Hydrate(c), productId) IN
                  /\ KeepsOthersInOrder(d.items, c.items, productId)
                  /\ LinesOf(c, productId) = {} => (Persisted(d) = c /\ d.modified = {})
             /\ LET d == removeProduct(Surrounded(c), productId) IN
                  /\ KeepsOthersInOrder(d.items, Surrounded(c).items, productId)
                  /\ d.totalAmount = SumAmount(d.items)
                  /\ d.totalItems = SumQuantity(d.items))
    /\ [][\A p \in Procs :
           (req[p].op = "remove" /\ req[p].pc = "save" /\ req'[p].pc = "idle") =>
              LET c == req[p].cart IN
              /\ res'.outcome = "ok"
              /\ res'.cart \in carts'
              /\ KeepsOthersInOrder(res'.cart.items, c.items, req[p].productId)
              /\ LinesOf(c, req[p].productId) = {} =>
                    (Contents(res'.cart) = Contents(c) /\ carts' = carts)
         ]_vars

\* C23 witness: the second request of a run, a remove, has taken its
\* product's line out of a cart of two lines: the stored cart holds the other
\* line alone.
RemoveDeletesOnlyThatLineWitness ==
    /\ budget = MaxSeqOps - 2
    /\ res.op = "remove" /\ res.outcome = "ok" /\ ~res.inserted
    /\ res.cart \in carts
    /\ res.cart.version = 3
    /\ Len(res.cart.items) = 1
    /\ res.cart.items[1].productId # res.body.productId

\* C24: an add request is answered with the validation error only when it
\* omits the userId, the productId, the name or the price, and then no cart
\* is changed or created; in particular an add that supplies all four with a
\* price of 0 goes on to the cart, and when its product has no line its save
\* stores a line of price 0.
AddAcceptsZeroPrice ==
    [][/\ (res' # res /\ res'.op = "add" /\ res'.outcome = "validation") =>
            /\ \/ res'.userId = "" \/ res'.body.productId = ""
               \/ res'.body.name = "" \/ ~res'.body.price.defined
            /\ carts' = carts
       /\ \A p \in Procs :
            (/\ req[p].op = "add" /\ req[p].body.price = Num(0)
             /\ req[p].pc = "save" /\ req'[p].pc = "idle"
             /\ LinesOf(req[p].cart, req[p].productId) = {}) =>
               /\ res'.outcome = "ok"
               /\ \E i \in 1..Len(res'.cart.items) :
                    /\ res'.cart.items[i].productId = req[p].productId
                    /\ res'.cart.items[i].price = 0
      ]_vars

====
